---------------------------- MODULE Spec2Model ----------------------------
(***************************************************************************)
(* Model of the CSV ingestion pipeline of Personal-Financial-Advisor:      *)
(* parseCSV (utils/parseCSV.ts), validateRows / sanitizeRow / checkType    *)
(* (utils/schemaValidation.ts), the IndexedDB repository                   *)
(* (services/idb/transactionsRepo.ts) and the UploadZone component.        *)
(*                                                                         *)
(* JavaScript strings are sequences of one-character strings, so that      *)
(* trim, split, Number() and the date formatting are computed and not      *)
(* assumed.  The alphabet of the modelled inputs has digits, letters, the  *)
(* blank, "/", "-", "+" and "."; it has no exponent or radix-prefix forms. *)
(***************************************************************************)
EXTENDS Integers, Sequences, FiniteSets, TLC

(***************************************************************************)
(* Bounds of the model.                                                    *)
(***************************************************************************)
MaxWestTZ == 12     \* local offsets from UTC, in hours: -MaxWestTZ..MaxEastTZ
MaxEastTZ == 14
TZOffsets == (0 - MaxWestTZ)..MaxEastTZ

(***************************************************************************)
(* JavaScript values.                                                      *)
(***************************************************************************)
Undefined == <<"\\undefined">>      \* the value undefined (not a string)
EmptyStr == <<>>
WhiteSpace == {" ", "\t"}
DigitChars == <<"0", "1", "2", "3", "4", "5", "6", "7", "8", "9">>
Digits == {DigitChars[i] : i \in 1..10}

DigitVal(c) == CHOOSE i \in 0..9 : DigitChars[i + 1] = c

IsString(v) == v # Undefined

\* nanoid(): the i-th identifier generated
NanoId(i) == <<"n", DigitChars[i + 1]>>

\* String.prototype.trim
RECURSIVE TrimLeft(_)
TrimLeft(s) ==
  IF s # <<>> /\ Head(s) \in WhiteSpace THEN TrimLeft(Tail(s)) ELSE s

RECURSIVE TrimRight(_)
TrimRight(s) ==
  IF s # <<>> /\ s[Len(s)] \in WhiteSpace
    THEN TrimRight(SubSeq(s, 1, Len(s) - 1))
    ELSE s

\* a trim that removes leading whitespace only
TrimStartOnly(s) == TrimLeft(s)

Trim(s) == TrimRight(TrimLeft(s))

\* String.prototype.split(sep) for a one-character separator
RECURSIVE SplitAcc(_, _, _)
SplitAcc(s, sep, cur) ==
  IF s = <<>> THEN <<cur>>
  ELSE IF Head(s) = sep THEN <<cur>> \o SplitAcc(Tail(s), sep, <<>>)
  ELSE SplitAcc(Tail(s), sep, Append(cur, Head(s)))

Split(s, sep) == SplitAcc(s, sep, <<>>)

\* array destructuring / indexing: a missing element is undefined
At(arr, i) == IF i <= Len(arr) THEN arr[i] ELSE Undefined

(***************************************************************************)
(* Number(value), as applied by the unary plus of sanitizeRow and by       *)
(* checkType.  A number is NaN, an infinity, or a finite decimal with its  *)
(* sign, integer part and whether it has a non-zero fraction.              *)
(***************************************************************************)
NaN == [kind |-> "nan"]
Inf(neg) == [kind |-> "inf", neg |-> neg]
Fin(neg, int, frac) == [kind |-> "finite", neg |-> neg, int |-> int, frac |-> frac]
InfinityLit == <<"I", "n", "f", "i", "n", "i", "t", "y">>

AllDigits(s) == \A i \in 1..Len(s) : s[i] \in Digits

RECURSIVE DigitsValue(_)
DigitsValue(s) ==
  IF s = <<>> THEN 0 ELSE 10 * DigitsValue(SubSeq(s, 1, Len(s) - 1)) + DigitVal(s[Len(s)])

NonZeroDigits(s) == \E i \in 1..Len(s) : s[i] # "0"

\* an unsigned StrDecimalLiteral
UnsignedNumber(s, neg) ==
  IF s = InfinityLit THEN Inf(neg)
  ELSE
    LET parts == Split(s, ".")
    IN  IF Len(parts) = 1
          THEN IF s # <<>> /\ AllDigits(s) THEN Fin(neg, DigitsValue(s), FALSE) ELSE NaN
        ELSE IF Len(parts) = 2
          THEN IF /\ AllDigits(parts[1]) /\ AllDigits(parts[2])
                  /\ (parts[1] # <<>> \/ parts[2] # <<>>)
                 THEN Fin(neg, DigitsValue(parts[1]), NonZeroDigits(parts[2]))
                 ELSE NaN
        ELSE NaN

ToNumber(v) ==
  IF v = Undefined THEN NaN
  ELSE
    LET t == Trim(v)
    IN  IF t = <<>> THEN Fin(FALSE, 0, FALSE)
        ELSE IF Head(t) = "-" THEN UnsignedNumber(Tail(t), TRUE)
        ELSE IF Head(t) = "+" THEN UnsignedNumber(Tail(t), FALSE)
        ELSE UnsignedNumber(t, FALSE)

IsNaN(n) == n.kind = "nan"
IsFinite(n) == n.kind = "finite"

\* ToIntegerOrInfinity of a finite number
Trunc(n) == IF n.neg THEN 0 - n.int ELSE n.int

\* ToIntegerOrInfinity(n - 1) of a finite number
TruncMinusOne(n) ==
  IF ~n.neg /\ n.int = 0 /\ n.frac THEN 0 ELSE Trunc(n) - 1

(***************************************************************************)
(* Calendar arithmetic of Date: days since 1970-01-01 of a civil date and  *)
(* back (proleptic Gregorian calendar).                                    *)
(***************************************************************************)
IsLeap(y) == (y % 4 = 0 /\ y % 100 # 0) \/ y % 400 = 0

DaysInMonth(y, m) ==
  IF m = 2 THEN (IF IsLeap(y) THEN 29 ELSE 28)
  ELSE IF m \in {4, 6, 9, 11} THEN 30 ELSE 31

\* day number of y-m-d, for m in 1..12 and any integer d
DaysFromCivil(y, m, d) ==
  LET yy == IF m <= 2 THEN y - 1 ELSE y
      era == yy \div 400
      yoe == yy - era * 400
      mp == IF m > 2 THEN m - 3 ELSE m + 9
      doy == (153 * mp + 2) \div 5 + d - 1
      doe == yoe * 365 + yoe \div 4 - yoe \div 100 + doy
  IN  era * 146097 + doe - 719468

CivilFromDays(z0) ==
  LET z == z0 + 719468
      era == z \div 146097
      doe == z - era * 146097
      yoe == (doe - doe \div 1460 + doe \div 36524 - doe \div 146096) \div 365
      doy == doe - (365 * yoe + yoe \div 4 - yoe \div 100)
      mp == (5 * doy + 2) \div 153
      d == doy - (153 * mp + 2) \div 5 + 1
      m == IF mp < 10 THEN mp + 3 ELSE mp - 9
      y == yoe + era * 400 + (IF m <= 2 THEN 1 ELSE 0)
  IN  [year |-> y, month |-> m, day |-> d]

MaxTimeDays == 100000000     \* a time value is within 8.64e15 ms of the epoch
HoursPerDay == 24

InvalidDate == [valid |-> FALSE]

\* new Date(year, monthIndex, day): local midnight of the (rolled over) civil
\* date, as a time value in UTC: day number since the epoch and hour of that day
NewDate(year, monthIndex, day, tzHours) ==
  IF ~(IsFinite(year) /\ IsFinite(monthIndex) /\ IsFinite(day)) THEN InvalidDate
  ELSE
    LET y0 == Trunc(year)
        y == IF y0 \in 0..99 THEN 1900 + y0 ELSE y0
        m0 == TruncMinusOne(monthIndex)
        ym == y + m0 \div 12
        mn == m0 % 12
        localDay == DaysFromCivil(ym, mn + 1, Trunc(day))
        utcDay == localDay + (0 - tzHours) \div HoursPerDay
        utcHour == (0 - tzHours) % HoursPerDay
    IN  IF \/ utcDay > MaxTimeDays
           \/ (utcDay = MaxTimeDays /\ utcHour > 0)
           \/ utcDay < 0 - MaxTimeDays
          THEN InvalidDate
          ELSE [valid |-> TRUE, day |-> utcDay, hour |-> utcHour]

RECURSIVE PadDigits(_, _)
PadDigits(n, width) ==
  IF width = 0 THEN <<>> ELSE Append(PadDigits(n \div 10, width - 1), DigitChars[(n % 10) + 1])

\* the date part of Date.prototype.toISOString(): toISOString().split('T')[0]
ISODatePart(date) ==
  LET c == CivilFromDays(date.day)
      yr == IF c.year \in 0..9999 THEN PadDigits(c.year, 4)
            ELSE IF c.year < 0 THEN <<"-">> \o PadDigits(0 - c.year, 6)
            ELSE <<"+">> \o PadDigits(c.year, 6)
  IN  yr \o <<"-">> \o PadDigits(c.month, 2) \o <<"-">> \o PadDigits(c.day, 2)

\* Date.parse of a date-only ISO string (the only form sanitizeRow produces);
\* any other text is not a date of the ISO format
DateParseValid(s) ==
  LET body == IF s # <<>> /\ Head(s) \in {"+", "-"} THEN Tail(s) ELSE s
      parts == Split(body, "-")
      signed == s # <<>> /\ Head(s) \in {"+", "-"}
  IN  /\ Len(parts) = 3
      /\ AllDigits(parts[1]) /\ AllDigits(parts[2]) /\ AllDigits(parts[3])
      /\ Len(parts[1]) = (IF signed THEN 6 ELSE 4)
      /\ Len(parts[2]) = 2 /\ Len(parts[3]) = 2
      /\ DigitsValue(parts[2]) \in 1..12
      /\ DigitsValue(parts[3]) \in 1..DaysInMonth(DigitsValue(parts[1]), DigitsValue(parts[2]))

(***************************************************************************)
(* Rows, the header schema and the rule table.                             *)
(***************************************************************************)
REQUIRED_HEADERS ==
  <<"Account Type", "Account Number", "Transaction Date", "Cheque Number",
    "Description 1", "Description 2", "CAD$", "USD$">>

RequiredSet == {REQUIRED_HEADERS[i] : i \in 1..Len(REQUIRED_HEADERS)}
ParsedRowKeys == {"id"} \cup RequiredSet

Rule(t, e) == [type |-> t, allowEmpty |-> e]

COLUMN_RULES ==
  "Account Type" :> Rule("string", FALSE) @@
  "Account Number" :> Rule("string", FALSE) @@
  "Transaction Date" :> Rule("date", FALSE) @@
  "Cheque Number" :> Rule("string", TRUE) @@
  "Description 1" :> Rule("string", FALSE) @@
  "Description 2" :> Rule("string", TRUE) @@
  "CAD$" :> Rule("number", TRUE) @@
  "USD$" :> Rule("number", TRUE)

checkType(value, expectedType, allowEmpty) ==
  IF allowEmpty /\ (value = EmptyStr \/ value = Undefined) THEN TRUE
  ELSE IF expectedType = "string" THEN IsString(value)
  ELSE IF expectedType = "number" THEN ~IsNaN(ToNumber(value))
  ELSE IF expectedType = "date" THEN DateParseValid(value)
  ELSE FALSE

Thrown(e) == [ok |-> FALSE, error |-> e]
Returned(v) == [ok |-> TRUE, value |-> v]

RangeError == [name |-> "RangeError", message |-> "Invalid time value"]

\* sanitizeRow under the local timezone offset tzHours; toISOString throws
\* a RangeError on an invalid Date
sanitizeRow(row, tzHours) ==
  LET parts == Split(row["Transaction Date"], "/")
      month == At(parts, 1)
      day == At(parts, 2)
      year == At(parts, 3)
      date == NewDate(ToNumber(year), ToNumber(month), ToNumber(day), tzHours)
  IN  IF ~date.valid THEN Thrown(RangeError)
      ELSE Returned(
             [k \in DOMAIN row |->
                IF k = "Transaction Date" THEN ISODatePart(date)
                ELSE IF k \in RequiredSet THEN Trim(row[k])
                ELSE row[k]])

(***************************************************************************)
(* The repository over the IndexedDB object store "transactions"           *)
(* (keyPath "id").  A store is a function from ids to DBTransaction        *)
(* records.  Each repository call runs in its own IndexedDB transaction.   *)
(***************************************************************************)
\* convertToDBFormat with the two amount fields exchanged
convertAmountsSwapped(row) ==
  [id |-> row["id"],
   accountType |-> row["Account Type"],
   accountNumber |-> row["Account Number"],
   transactionDate |-> row["Transaction Date"],
   chequeNumber |-> row["Cheque Number"],
   description1 |-> row["Description 1"],
   description2 |-> row["Description 2"],
   cadAmount |-> row["USD$"],
   usdAmount |-> row["CAD$"]]

convertToDBFormat(row) ==
  [id |-> row["id"],
   accountType |-> row["Account Type"],
   accountNumber |-> row["Account Number"],
   transactionDate |-> row["Transaction Date"],
   chequeNumber |-> row["Cheque Number"],
   description1 |-> row["Description 1"],
   description2 |-> row["Description 2"],
   cadAmount |-> row["CAD$"],
   usdAmount |-> row["USD$"]]

ConstraintError ==
  [name |-> "ConstraintError", message |-> "Key already exists in the object store"]

NotFoundError(id) == [name |-> "Error", message |-> "not found", id |-> id]

\* an add that replaces the record under an existing key
StoreAddOverwrite(st, rec) ==
  [ok |-> TRUE, store |-> [k \in DOMAIN st \cup {rec.id} |-> IF k = rec.id THEN rec ELSE st[k]]]

\* IDBObjectStore.add inside a transaction whose working state is st
StoreAdd(st, rec) ==
  IF rec.id \in DOMAIN st
    THEN [ok |-> FALSE, store |-> st]
    ELSE [ok |-> TRUE, store |-> (rec.id :> rec) @@ st]

\* addTransaction: one readwrite transaction with one add; a failed add
\* aborts the transaction and the error is rethrown
addTransaction(st, row) ==
  LET a == StoreAdd(st, convertToDBFormat(row))
  IN  IF a.ok THEN [store |-> a.store, result |-> Returned(Undefined)]
      ELSE [store |-> st, result |-> Thrown(ConstraintError)]

\* the loop of addTransactions: adds inside one transaction until one fails
RECURSIVE TxAddAll(_, _)
TxAddAll(work, rows) ==
  IF rows = <<>> THEN [ok |-> TRUE, store |-> work]
  ELSE LET a == StoreAdd(work, convertToDBFormat(Head(rows)))
       IN  IF a.ok THEN TxAddAll(a.store, Tail(rows))
           ELSE [ok |-> FALSE, store |-> work]

\* a transaction that keeps the writes made before the failed add
TxOutcomeKeepWrites(before, tx) == tx.store

\* the outcome of the transaction of addTransactions: committed when every
\* add succeeded, aborted (all its writes undone) by a failed add request
TxOutcome(before, tx) == IF tx.ok THEN tx.store ELSE before

addTransactions(st, rows) ==
  LET tx == TxAddAll(st, rows)
  IN  [store |-> TxOutcome(st, tx),
       result |-> IF tx.ok THEN Returned(Undefined) ELSE Thrown(ConstraintError)]

getTransaction(st, id) ==
  IF id \in DOMAIN st THEN Returned(st[id]) ELSE Thrown(NotFoundError(id))

\* getAllTransactions: the records of the store
getAllTransactions(st) == Returned({st[k] : k \in DOMAIN st})

getTransactionCount(st) == Returned(Cardinality(DOMAIN st))

\* IDBObjectStore.put: inserts, or replaces the record under the key
StorePut(st, rec) == [k \in DOMAIN st \cup {rec.id} |-> IF k = rec.id THEN rec ELSE st[k]]

\* IDBObjectStore.delete: removes the record under the key, if there is one
StoreDelete(st, id) == [k \in DOMAIN st \ {id} |-> st[k]]

CannotUpdateError(id) ==
  [name |-> "Error", message |-> "Cannot update, transaction does not exist", id |-> id]

\* updateTransaction up to its second await: db.get and the existence check
updateTransactionGet(st, row) ==
  IF row["id"] \in DOMAIN st THEN Returned(st[row["id"]])
  ELSE Thrown(CannotUpdateError(row["id"]))

\* updateTransaction after its second await: db.put
updateTransactionPut(st, row) ==
  [store |-> StorePut(st, convertToDBFormat(row)), result |-> Returned(Undefined)]

\* deleteTransaction: db.delete resolves whether or not the key exists
deleteTransaction(st, id) ==
  [store |-> StoreDelete(st, id), result |-> Returned(Undefined)]

clearTransactions(st) == [store |-> <<>>, result |-> Returned(Undefined)]

(***************************************************************************)
(* parseCSV.  A file is its header cells and its data records (sequences   *)
(* of cells).  A header cell is a sequence of tokens: an optional byte     *)
(* order mark, blanks, and the column name as one token.  A JavaScript     *)
(* object is its keys in enumeration order and its values.                 *)
(***************************************************************************)
BOM == "\\uFEFF"

normalizeHeader(header) ==
  LET noBom == IF header # <<>> /\ Head(header) = BOM THEN Tail(header) ELSE header
      t == Trim(noBom)
  IN  IF t = <<>> THEN "" ELSE t[1]

Obj(keys, vals) == [keys |-> keys, vals |-> vals]

Get(obj, k) == IF k \in DOMAIN obj.vals THEN obj.vals[k] ELSE Undefined

RECURSIVE WithoutKey(_, _)
WithoutKey(keys, k) ==
  IF keys = <<>> THEN <<>>
  ELSE IF Head(keys) = k THEN WithoutKey(Tail(keys), k)
  ELSE <<Head(keys)>> \o WithoutKey(Tail(keys), k)

\* Papa.parse with header: true: one object per record, keyed by the
\* decoded header; surplus fields go to __parsed_extra, missing ones are absent
PapaRow(fields, record) ==
  LET n == Len(record)
      m == Len(fields)
      named == IF n < m THEN n ELSE m
      keys == SubSeq(fields, 1, named) \o (IF n > m THEN <<"__parsed_extra">> ELSE <<>>)
      vals == [k \in {keys[i] : i \in 1..Len(keys)} |->
                 IF k = "__parsed_extra" /\ n > m THEN SubSeq(record, m + 1, n)
                 ELSE record[CHOOSE i \in 1..named : fields[i] = k]]
  IN  Obj(keys, vals)

\* skipEmptyLines: true
IsEmptyLine(record) == record = <<EmptyStr>>

RECURSIVE PapaData(_, _)
PapaData(fields, records) ==
  IF records = <<>> THEN <<>>
  ELSE IF IsEmptyLine(Head(records)) THEN PapaData(fields, Tail(records))
  ELSE <<PapaRow(fields, Head(records))>> \o PapaData(fields, Tail(records))

DecodedHeaders(file) == [i \in 1..Len(file.headers) |-> normalizeHeader(file.headers[i])]

\* { id: nanoid(), ...row }
WithId(row, id) ==
  Obj(<<"id">> \o WithoutKey(row.keys, "id"),
      [k \in {"id"} \cup DOMAIN row.vals |->
         IF k \in DOMAIN row.vals THEN row.vals[k] ELSE id])

\* parseCSV resolves with the rows with ids; n identifiers were generated before
parseCSV(file, n) ==
  LET data == PapaData(DecodedHeaders(file), file.records)
  IN  [rows |-> [i \in 1..Len(data) |-> WithId(data[i], NanoId(n + i))],
       issued |-> n + Len(data)]

(***************************************************************************)
(* validateRows, up to its first await: the header check and the loop that *)
(* sanitizes and validates every row.                                      *)
(***************************************************************************)
NoDataError == [name |-> "Error", message |-> "No data to validate"]
HeaderError == [name |-> "Error", message |-> "Invalid headers detected during validation"]
InvalidTypeError(col, value) ==
  [name |-> "Error", message |-> "Invalid type for column", column |-> col, value |-> value]
StoreFailedError(cause) ==
  [name |-> "Error", message |-> "Failed to store transaction", cause |-> cause.message]

RECURSIVE FilterKeys(_, _)
FilterKeys(keys, drop) ==
  IF keys = <<>> THEN <<>>
  ELSE IF Head(keys) \in drop THEN FilterKeys(Tail(keys), drop)
  ELSE <<Head(keys)>> \o FilterKeys(Tail(keys), drop)

\* the header check of validateRows, on the keys of the first row
HeadersAccepted(firstRow) ==
  LET firstRowKeys == FilterKeys(firstRow.keys, {"id", "__parsed_extra"})
  IN  /\ Len(firstRowKeys) = Len(REQUIRED_HEADERS)
      /\ \A i \in 1..Len(REQUIRED_HEADERS) : REQUIRED_HEADERS[i] = firstRowKeys[i]

\* value || ""
OrEmpty(v) == IF v = Undefined \/ v = EmptyStr THEN EmptyStr ELSE v

\* a cleanRow that always takes a new identifier
CleanRowNewId(row, fresh) ==
  [k \in ParsedRowKeys |-> IF k = "id" THEN fresh ELSE OrEmpty(Get(row, k))]

\* the cleanRow of validateRows; fresh is the identifier nanoid() would give
CleanRow(row, fresh) ==
  [k \in ParsedRowKeys |->
     IF k = "id"
       THEN (IF Get(row, "id") = Undefined \/ Get(row, "id") = EmptyStr
               THEN fresh ELSE Get(row, "id"))
       ELSE OrEmpty(Get(row, k))]

NeedsId(row) == Get(row, "id") = Undefined \/ Get(row, "id") = EmptyStr

\* the columns of a sanitized row that violate their rule, by position
BadColumns(row) ==
  {i \in 1..Len(REQUIRED_HEADERS) :
     LET col == REQUIRED_HEADERS[i]
     IN  ~checkType(row[col], COLUMN_RULES[col].type, COLUMN_RULES[col].allowEmpty)}

MinOf(S) == CHOOSE x \in S : \A y \in S : x <= y

\* one iteration of the first loop: the sanitized row, or the error thrown
ValidateRow(row, fresh, tzHours) ==
  LET s == sanitizeRow(CleanRow(row, fresh), tzHours)
  IN  IF ~s.ok THEN s
      ELSE IF BadColumns(s.value) # {}
        THEN LET col == REQUIRED_HEADERS[MinOf(BadColumns(s.value))]
             IN  Thrown(InvalidTypeError(col, s.value[col]))
      ELSE s

\* a first loop that drops the rows that fail and keeps the others
RECURSIVE ValidateLoopSkipInvalid(_, _, _, _)
ValidateLoopSkipInvalid(rows, acc, n, tzHours) ==
  IF rows = <<>> THEN [result |-> Returned(acc), issued |-> n]
  ELSE LET v == ValidateRow(Head(rows), NanoId(n + 1), tzHours)
           n2 == IF NeedsId(Head(rows)) THEN n + 1 ELSE n
       IN  ValidateLoopSkipInvalid(Tail(rows), IF v.ok THEN Append(acc, v.value) ELSE acc,
                                   n2, tzHours)

RECURSIVE ValidateLoop(_, _, _, _)
ValidateLoop(rows, acc, n, tzHours) ==
  IF rows = <<>> THEN [result |-> Returned(acc), issued |-> n]
  ELSE LET row == Head(rows)
           n2 == IF NeedsId(row) THEN n + 1 ELSE n
           v == ValidateRow(row, NanoId(n + 1), tzHours)
       IN  IF ~v.ok THEN [result |-> v, issued |-> n2]
           ELSE ValidateLoop(Tail(rows), Append(acc, v.value), n2, tzHours)

validateRowsSync(rows, n, tzHours) ==
  IF Len(rows) = 0 THEN [result |-> Thrown(NoDataError), issued |-> n]
  ELSE IF ~HeadersAccepted(rows[1]) THEN [result |-> Thrown(HeaderError), issued |-> n]
  ELSE ValidateLoop(rows, <<>>, n, tzHours)

(***************************************************************************)
(* Cell values of the modelled input files.                               *)
(***************************************************************************)
D_Jan15 == <<"0", "1", "/", "1", "5", "/", "2", "0", "2", "4">>   \* "01/15/2024"
D_Short == <<"1", "/", "5", "/", "2", "0", "2", "4">>   \* "1/5/2024"
D_Dec31 == <<"1", "2", "/", "3", "1", "/", "2", "0", "2", "3">>   \* "12/31/2023"
D_Jan01 == <<"0", "1", "/", "0", "1", "/", "2", "0", "2", "4">>   \* "01/01/2024"
D_Leap == <<"0", "2", "/", "2", "9", "/", "2", "0", "2", "4">>   \* "02/29/2024"
D_Mar01 == <<"0", "3", "/", "0", "1", "/", "2", "0", "0", "0">>   \* "03/01/2000"
D_TwoDigitYear == <<"1", "/", "1", "5", "/", "2", "4">>   \* "1/15/24"
D_Rollover == <<"1", "3", "/", "4", "5", "/", "2", "0", "2", "4">>   \* "13/45/2024"
D_Feb30 == <<"0", "2", "/", "3", "0", "/", "2", "0", "2", "3">>   \* "02/30/2023"
D_MonthZero == <<"0", "0", "/", "1", "0", "/", "2", "0", "2", "4">>   \* "00/10/2024"
D_DayZero == <<"0", "1", "/", "0", "0", "/", "2", "0", "2", "4">>   \* "01/00/2024"
D_Empty == <<>>   \* ""
D_Text == <<"a", "b", "c">>   \* "abc"
D_Canonical == <<"2", "0", "2", "4", "-", "0", "1", "-", "1", "5">>   \* "2024-01-15"
D_Letters == <<"a", "/", "b", "/", "c">>   \* "a/b/c"
D_TwoParts == <<"0", "1", "/", "1", "5">>   \* "01/15"
D_Padded == <<" ", "0", "1", "/", "1", "5", "/", "2", "0", "2", "4", " ">>   \* " 01/15/2024 "
D_FourParts == <<"0", "1", "/", "1", "5", "/", "2", "0", "2", "4", "/", "9">>   \* "01/15/2024/9"
D_EmptyParts == <<"/", "/">>   \* "//"
D_NoMonth == <<"/", "1", "5", "/", "2", "0", "2", "4">>   \* "/15/2024"

DateCells ==
  {D_Jan15, D_Short, D_Dec31, D_Jan01, D_Leap, D_Mar01, D_TwoDigitYear, D_Rollover, D_Feb30, D_MonthZero, D_DayZero, D_Empty, D_Text, D_Canonical, D_Letters, D_TwoParts, D_Padded, D_FourParts,
   D_EmptyParts, D_NoMonth}

T_Chequing == <<"C", "h", "e", "q", "u", "i", "n", "g">>
T_ChequingPadded == <<" ", "C", "h", "e", "q", "u", "i", "n", "g", "\t">>
T_Account == <<"1", "2", "3", "4", "5">>
T_Grocery == <<"G", "r", "o", "c", "e", "r", "y", " ", "S", "t", "o", "r", "e">>
T_Amount == <<"-", "5", "4", ".", "3", "2">>
T_AmountPadded == <<" ", "-", "5", "4", ".", "3", "2", " ">>
T_NotANumber == <<"a", "b", "c">>
T_Blank == <<" ">>

MkRow(id, accType, accNum, date, cheque, desc1, desc2, cad, usd) ==
  "id" :> id @@
  "Account Type" :> accType @@
  "Account Number" :> accNum @@
  "Transaction Date" :> date @@
  "Cheque Number" :> cheque @@
  "Description 1" :> desc1 @@
  "Description 2" :> desc2 @@
  "CAD$" :> cad @@
  "USD$" :> usd

\* the rows sanitizeRow is applied to in SpecSanitize
SanitizeInputs ==
  {MkRow(NanoId(1), t, T_Account, d, EmptyStr, d1, T_Blank, c, EmptyStr) :
     t \in {T_Chequing, T_ChequingPadded}, d \in DateCells,
     d1 \in {T_Grocery, EmptyStr}, c \in {T_Amount, T_AmountPadded}}

(***************************************************************************)
(* State.                                                                  *)
(***************************************************************************)
VARIABLES
  tz,          \* local timezone offset of the runtime, hours east of UTC
  store,       \* object store "transactions": id -> DBTransaction
  issued,      \* number of identifiers nanoid() has generated
  pc,          \* position of the import in flight
  parsedRows,  \* rows resolved by parseCSV
  validated,   \* validateRows' list of sanitized, validated rows
  addCalls,    \* addTransaction calls made by the import in flight
  storeBefore, \* the store when the import started
  outcome,     \* how the last import ended
  file,        \* the file of the import
  call,        \* last direct call of a function: name and argument
  ret,         \* its result: a returned value or a thrown error
  pending,     \* updateTransaction calls between their get and their put
  selectedFile, \* UploadZone state: the chosen file, or null
  rowsState,   \* UploadZone state rows: the echoed rows of the last import
  errorMsg,    \* UploadZone state: the inline error, or null
  loading,     \* UploadZone state: an import is being processed
  imports,     \* the imports handleParse has started, in order
  tabulated,   \* SpecUpload: what parsing and validating each file gives
  table,       \* TransactionsTable state, or null while it is not mounted
  handlers     \* the asynchronous handlers the table has started, in order

uploadVars == <<selectedFile, rowsState, errorMsg, loading, imports, tabulated>>

tableVars == <<table, handlers>>

vars == <<tz, store, issued, pc, parsedRows, validated, addCalls, storeBefore,
          outcome, file, call, ret, pending, uploadVars, tableVars>>

pipelineVars ==
  <<store, issued, pc, parsedRows, validated, addCalls, storeBefore, outcome, file>>

NoCall == [op |-> "none"]
NoRet == [ok |-> TRUE, value |-> Undefined]
NoOutcome == [status |-> "none"]
NoFile == [headers |-> <<>>, records |-> <<>>]
EmptyStore == <<>>
Null == [null |-> TRUE]

\* the state of UploadZone after its first render
UploadIdle ==
  /\ selectedFile = Null
  /\ rowsState = <<>>
  /\ errorMsg = Null
  /\ loading = FALSE
  /\ imports = <<>>

PipelineIdle ==
  /\ store = EmptyStore
  /\ issued = 0
  /\ pc = "idle"
  /\ parsedRows = <<>>
  /\ validated = <<>>
  /\ addCalls = 0
  /\ storeBefore = EmptyStore
  /\ outcome = NoOutcome
  /\ file = NoFile
  /\ pending = {}
  /\ UploadIdle
  /\ tabulated = {}
  /\ table = Null
  /\ handlers = <<>>

(***************************************************************************)
(* SpecSanitize: sanitizeRow applied to a row, and again to its result.    *)
(***************************************************************************)
InitSanitize ==
  /\ tz \in TZOffsets
  /\ PipelineIdle
  /\ call = NoCall
  /\ ret = NoRet

SanitizeCall ==
  /\ call = NoCall
  /\ \E r \in SanitizeInputs :
       /\ call' = [op |-> "sanitizeRow", arg |-> r, nth |-> 1]
       /\ ret' = sanitizeRow(r, tz)
  /\ UNCHANGED <<tz, pipelineVars, pending, uploadVars, tableVars>>

SanitizeAgain ==
  /\ call.op = "sanitizeRow" /\ call.nth = 1
  /\ ret.ok
  /\ call' = [op |-> "sanitizeRow", arg |-> ret.value, nth |-> 2]
  /\ ret' = sanitizeRow(ret.value, tz)
  /\ UNCHANGED <<tz, pipelineVars, pending, uploadVars, tableVars>>

NextSanitize == SanitizeCall \/ SanitizeAgain

SpecSanitize == InitSanitize /\ [][NextSanitize]_vars

(***************************************************************************)
(* The input files of the pipeline.                                        *)
(***************************************************************************)
MaxRows == 2        \* data records per file
MaxIds == 3         \* identifiers nanoid() can generate in one behaviour

Cells(acc, date, desc1, cad) ==
  "Account Type" :> acc @@ "Account Number" :> T_Account @@
  "Transaction Date" :> date @@ "Cheque Number" :> EmptyStr @@
  "Description 1" :> desc1 @@ "Description 2" :> T_Blank @@
  "CAD$" :> cad @@ "USD$" :> EmptyStr

R_Valid == Cells(T_ChequingPadded, D_Jan15, T_Grocery, T_AmountPadded)
R_Unparsed == Cells(T_Chequing, D_Canonical, T_Grocery, T_Amount)
R_Rollover == Cells(T_Chequing, D_Rollover, T_Grocery, T_Amount)
R_EmptyDesc == Cells(T_Chequing, D_Jan15, EmptyStr, T_Amount)
R_BadAmount == Cells(T_Chequing, D_Jan15, T_Grocery, T_NotANumber)

R_InfAmount == Cells(T_Chequing, D_Jan15, T_Grocery, InfinityLit)
R_EmptyDescBadAmount == Cells(T_Chequing, D_Jan15, EmptyStr, T_NotANumber)
R_BothAmountsBad == [R_BadAmount EXCEPT !["USD$"] = T_Chequing]

RowKinds ==
  {R_Valid, R_Unparsed, R_Rollover, R_EmptyDesc, R_BadAmount,
   R_InfAmount, R_EmptyDescBadAmount, R_BothAmountsBad}

T_Notes == <<"x">>
CsvId == <<"x", "1">>
IdCells == {EmptyStr, CsvId, NanoId(1)}

Names(seq) == [i \in 1..Len(seq) |-> <<seq[i]>>]

H_Required == Names(REQUIRED_HEADERS)
H_BomPadded ==
  [H_Required EXCEPT ![1] = <<BOM, "Account Type">>, ![2] = <<" ", "Account Number", "\t">>]
H_Swapped == [H_Required EXCEPT ![7] = <<"USD$">>, ![8] = <<"CAD$">>]
H_Missing == SubSeq(H_Required, 1, 7)
H_Extra == Append(H_Required, <<"Notes">>)
H_Renamed == [H_Required EXCEPT ![3] = <<"Date">>]
H_Id == <<<<"id">>>> \o H_Required
H_IdLast == Append(H_Required, <<"id">>)
H_ParsedExtra == Append(H_Required, <<"__parsed_extra">>)

\* the record of a file with the given header for a row of the given cells
RecordFor(headers, cells, idCell) ==
  [i \in 1..Len(headers) |->
     LET name == normalizeHeader(headers[i])
     IN  IF name \in RequiredSet THEN cells[name]
         ELSE IF name = "id" THEN idCell
         ELSE T_Notes]

SeqsUpTo(S, n) == UNION {[1..k -> S] : k \in 0..n}

FilesWith(headers, kinds, ids) ==
  {[headers |-> headers, records |-> recs] :
     recs \in SeqsUpTo({RecordFor(headers, c, i) : c \in kinds, i \in ids}, MaxRows)}

\* records with one field more and one field fewer than the header
RecordSurplus == Append(RecordFor(H_Required, R_Valid, EmptyStr), T_Notes)
RecordShort == SubSeq(RecordFor(H_Required, R_Valid, EmptyStr), 1, Len(H_Required) - 1)

F_Surplus == [headers |-> H_Required, records |-> <<RecordSurplus>>]
F_Short ==
  [headers |-> H_Required,
   records |-> <<RecordFor(H_Required, R_Valid, EmptyStr), RecordShort>>]

Files ==
  FilesWith(H_Required, RowKinds, {EmptyStr})
    \cup FilesWith(H_Id, {R_Valid}, IdCells)
    \cup {F_Surplus, F_Short}
    \cup {[headers |-> h, records |-> <<RecordFor(h, R_Valid, CsvId)>>] :
            h \in {H_BomPadded, H_Swapped, H_Missing, H_Extra, H_Renamed,
                   H_IdLast, H_ParsedExtra}}

(***************************************************************************)
(* Spec: the import pipeline run by handleParse, parseCSV followed by      *)
(* validateRows, one step per stretch of code between two awaits.          *)
(***************************************************************************)
PipelineTZ == {0 - MaxWestTZ, MaxEastTZ}

Init ==
  /\ tz \in PipelineTZ
  /\ PipelineIdle
  /\ call = NoCall
  /\ ret = NoRet

\* identifiers validateRows generates for rows that carry none
IdsNeeded(rows) == Cardinality({i \in 1..Len(rows) : NeedsId(rows[i])})

\* parseCSV(file) is called and resolves
ParseCSV ==
  /\ pc = "idle"
  /\ \E f \in {g \in Files : issued + Len(g.records) <= MaxIds} :
       \E p \in {parseCSV(f, issued)} :
           /\ p.issued + IdsNeeded(p.rows) <= MaxIds
           /\ file' = f
           /\ parsedRows' = p.rows
           /\ issued' = p.issued
  /\ pc' = "parsed"
  /\ validated' = <<>>
  /\ addCalls' = 0
  /\ storeBefore' = store
  /\ outcome' = NoOutcome
  /\ UNCHANGED <<tz, store, call, ret, pending, uploadVars, tableVars>>

\* validateRows(parsedRows) runs to its first await, or throws
ValidateRows ==
  /\ pc = "parsed"
  /\ \E v \in {validateRowsSync(parsedRows, issued, tz)} :
         /\ issued' = v.issued
         /\ IF ~v.result.ok
              THEN /\ pc' = "idle"
                   /\ outcome' = [status |-> "rejected", error |-> v.result.error]
                   /\ UNCHANGED validated
              ELSE /\ pc' = "persisting"
                   /\ validated' = v.result.value
                   /\ UNCHANGED outcome
  /\ UNCHANGED <<tz, store, addCalls, storeBefore, file, parsedRows, call, ret,
                 pending, uploadVars, tableVars>>

\* the second loop of validateRows: await addTransaction(validatedRow); the
\* last one is followed by the return, a failed one by the throw
PersistRow ==
  /\ pc = "persisting"
  /\ \E a \in {addTransaction(store, validated[addCalls + 1])} :
         /\ store' = a.store
         /\ addCalls' = addCalls + 1
         /\ IF ~a.result.ok
              THEN /\ pc' = "idle"
                   /\ outcome' = [status |-> "rejected",
                                  error |-> StoreFailedError(a.result.error)]
            ELSE IF addCalls + 1 = Len(validated)
              THEN /\ pc' = "idle"
                   /\ outcome' = [status |-> "resolved", rows |-> validated]
            ELSE UNCHANGED <<pc, outcome>>
  /\ UNCHANGED <<tz, issued, storeBefore, file, parsedRows, validated, call, ret,
                 pending, uploadVars, tableVars>>

\* loadTransactions of the table (no index filter), to its second await:
\* getAllTransactions() resolves with the records the store holds then
LoadTransactionsGetAll ==
  /\ call' = [op |-> "getAllTransactions"]
  /\ ret' = getAllTransactions(store)
  /\ UNCHANGED <<tz, pipelineVars, pending, uploadVars, tableVars>>

\* loadTransactions after getAllTransactions: getTransactionCount() resolves
LoadTransactionsCount ==
  /\ call.op = "getAllTransactions"
  /\ call' = [op |-> "getTransactionCount"]
  /\ ret' = getTransactionCount(store)
  /\ UNCHANGED <<tz, pipelineVars, pending, uploadVars, tableVars>>

Next ==
  \/ ParseCSV
  \/ ValidateRows
  \/ PersistRow
  \/ LoadTransactionsGetAll
  \/ LoadTransactionsCount

Spec == Init /\ [][Next]_vars

(***************************************************************************)
(* SpecRepo: direct calls of the repository functions on the store.        *)
(***************************************************************************)
MaxBulk == 2        \* rows in one addTransactions call

RepoIds == {EmptyStr, NanoId(1), NanoId(2)}

RepoRows ==
  {MkRow(id, T_Chequing, T_Account, D_Canonical, EmptyStr, T_Grocery, EmptyStr, cad, usd) :
     id \in RepoIds, cad \in {T_Amount}, usd \in {EmptyStr, T_Account}}

InitRepo ==
  /\ tz = 0
  /\ PipelineIdle
  /\ call = NoCall
  /\ ret = NoRet

RepoFrame ==
  UNCHANGED <<tz, issued, pc, parsedRows, validated, addCalls, storeBefore, outcome, file,
              uploadVars, tableVars>>

CallAddTransaction ==
  /\ \E row \in RepoRows : \E a \in {addTransaction(store, row)} :
       /\ call' = [op |-> "addTransaction", arg |-> row]
       /\ store' = a.store
       /\ ret' = a.result
  /\ UNCHANGED pending
  /\ RepoFrame

CallAddTransactions ==
  /\ \E rows \in SeqsUpTo(RepoRows, MaxBulk) : \E a \in {addTransactions(store, rows)} :
       /\ call' = [op |-> "addTransactions", arg |-> rows]
       /\ store' = a.store
       /\ ret' = a.result
  /\ UNCHANGED pending
  /\ RepoFrame

CallGetTransaction ==
  /\ \E id \in RepoIds :
       /\ call' = [op |-> "getTransaction", arg |-> id]
       /\ ret' = getTransaction(store, id)
  /\ UNCHANGED <<store, pending>>
  /\ RepoFrame

CallDeleteTransaction ==
  /\ \E id \in RepoIds : \E d \in {deleteTransaction(store, id)} :
       /\ call' = [op |-> "deleteTransaction", arg |-> id]
       /\ store' = d.store
       /\ ret' = d.result
  /\ UNCHANGED pending
  /\ RepoFrame

CallClearTransactions ==
  /\ \E c \in {clearTransactions(store)} :
       /\ call' = [op |-> "clearTransactions"]
       /\ store' = c.store
       /\ ret' = c.result
  /\ UNCHANGED pending
  /\ RepoFrame

CallGetTransactionCount ==
  /\ call' = [op |-> "getTransactionCount"]
  /\ ret' = getTransactionCount(store)
  /\ UNCHANGED <<store, pending>>
  /\ RepoFrame

NextRepo ==
  \/ CallAddTransaction
  \/ CallAddTransactions
  \/ CallGetTransaction
  \/ CallDeleteTransaction
  \/ CallClearTransactions
  \/ CallGetTransactionCount

SpecRepo == InitRepo /\ [][NextRepo]_vars

(***************************************************************************)
(* SpecUpdate: updateTransaction calls, one step per stretch of code       *)
(* between two awaits, interleaved with the other writers of the store.    *)
(***************************************************************************)
MaxPending == 1     \* updateTransaction calls between their get and their put

\* updateTransaction(row) runs to the await of db.put, or throws
UpdateGet ==
  /\ \E row \in RepoRows : \E g \in {updateTransactionGet(store, row)} :
       IF g.ok
         THEN /\ Cardinality(pending \cup {row}) <= MaxPending
              /\ pending' = pending \cup {row}
              /\ UNCHANGED <<call, ret>>
         ELSE /\ call' = [op |-> "updateTransaction", arg |-> row]
              /\ ret' = g
              /\ UNCHANGED pending
  /\ UNCHANGED store
  /\ RepoFrame

\* db.put of an updateTransaction in flight, and its return
UpdatePut ==
  /\ \E row \in pending : \E u \in {updateTransactionPut(store, row)} :
       /\ pending' = pending \ {row}
       /\ call' = [op |-> "updateTransaction", arg |-> row]
       /\ store' = u.store
       /\ ret' = u.result
  /\ RepoFrame

NextUpdate ==
  \/ CallAddTransaction
  \/ UpdateGet
  \/ UpdatePut
  \/ CallDeleteTransaction
  \/ CallClearTransactions

SpecUpdate == InitRepo /\ [][NextUpdate]_vars

(***************************************************************************)
(* SpecUpload: the UploadZone component.  A dropped or selected file has a *)
(* MIME type, a name extension and its CSV content.  Every import started  *)
(* by handleParse is an entry of imports, at the position of its code.     *)
(***************************************************************************)
MaxAttempts == 2    \* imports handleParse starts in one behaviour

UploadFile(type, ext, content) ==
  [type |-> type, ext |-> ext, headers |-> content.headers, records |-> content.records]

F_TwoValid ==
  [headers |-> H_Required,
   records |-> <<RecordFor(H_Required, R_Valid, EmptyStr),
                 RecordFor(H_Required, R_Valid, EmptyStr)>>]
F_BadAmount ==
  [headers |-> H_Required, records |-> <<RecordFor(H_Required, R_BadAmount, EmptyStr)>>]
F_NoData == [headers |-> H_Required, records |-> <<>>]
F_DupId ==
  [headers |-> H_Id,
   records |-> <<RecordFor(H_Id, R_Valid, CsvId), RecordFor(H_Id, R_Valid, CsvId)>>]

F_WithId == [headers |-> H_Id, records |-> <<RecordFor(H_Id, R_Valid, CsvId)>>]

UploadFiles ==
  {UploadFile("text/csv", ".csv", c) :
     c \in {F_TwoValid, F_BadAmount, F_NoData, F_DupId, F_WithId}}
    \cup {UploadFile("", ".csv", F_TwoValid), UploadFile("text/plain", ".txt", F_TwoValid)}

\* the first file of a drop or change event; NoEventFile when it has none
NoEventFile == [type |-> "undefined"]
EventFiles == UploadFiles \cup {NoEventFile}

\* file.type === "text/csv" || file.name.endsWith(".csv")
IsCsvFile(f) == f.type = "text/csv" \/ f.ext = ".csv"

InvalidFileMsg == [message |-> "Please upload a valid .csv file"]

\* (error as Error).message: the text of the error with its interpolated parts
MessageOf(e) == [k \in DOMAIN e \ {"name"} |-> e[k]]

UploadTZ == 0        \* SpecUpload runs at UTC

\* await parseCSV(selectedFile) followed by validateRows(parsedRows) to its
\* first await, when n identifiers were generated before
parseAndValidate(f, n, tzHours) ==
  LET p == parseCSV(f, n)
  IN  validateRowsSync(p.rows, p.issued, tzHours)

\* parseAndValidate, tabulated for the files an import can have and the
\* identifiers the earlier imports can have generated (two records a file)
ParseAndValidateTable ==
  {[file |-> f, issued |-> n, out |-> parseAndValidate(f, n, UploadTZ)] :
     f \in {g \in UploadFiles : IsCsvFile(g)}, n \in 0..(2 * (MaxAttempts - 1))}

\* the entry of the table for file f after n generated identifiers
ParseAndValidateOf(f, n) ==
  (CHOOSE e \in tabulated : e.file = f /\ e.issued = n).out

InitUpload ==
  /\ tz = UploadTZ
  /\ store = EmptyStore
  /\ issued = 0
  /\ pc = "idle"
  /\ parsedRows = <<>>
  /\ validated = <<>>
  /\ addCalls = 0
  /\ storeBefore = EmptyStore
  /\ outcome = NoOutcome
  /\ file = NoFile
  /\ pending = {}
  /\ UploadIdle
  /\ tabulated = ParseAndValidateTable
  /\ table = Null
  /\ handlers = <<>>
  /\ call = NoCall
  /\ ret = NoRet

UploadFrame ==
  UNCHANGED <<tz, pc, parsedRows, validated, addCalls, storeBefore, outcome, file,
              call, ret, pending, tabulated, tableVars>>

OnDrop ==
  /\ \E f \in EventFiles :
       IF f # NoEventFile /\ IsCsvFile(f)
         THEN selectedFile' = f /\ errorMsg' = Null
         ELSE errorMsg' = InvalidFileMsg /\ UNCHANGED selectedFile
  /\ UNCHANGED <<store, issued, rowsState, loading, imports>>
  /\ UploadFrame

OnSelectFile ==
  /\ \E f \in EventFiles :
       IF f # NoEventFile /\ IsCsvFile(f)
         THEN selectedFile' = f /\ errorMsg' = Null
       ELSE IF f # NoEventFile
         THEN errorMsg' = InvalidFileMsg /\ UNCHANGED selectedFile
       ELSE errorMsg' = Null /\ UNCHANGED selectedFile
  /\ UNCHANGED <<store, issued, rowsState, loading, imports>>
  /\ UploadFrame

\* a button that stays enabled while an import is being processed
ButtonDisabledIgnoresLoading(sel, ld) == sel = Null

\* disabled={!selectedFile || loading}
ButtonDisabled(sel, ld) == sel = Null \/ ld

\* a click on the button: handleParse to its first await, parseCSV(selectedFile)
HandleParse ==
  /\ ~ButtonDisabled(selectedFile, loading)
  /\ selectedFile # Null
  /\ Len(imports) < MaxAttempts
  /\ errorMsg' = Null
  /\ loading' = TRUE
  /\ imports' = Append(imports, [file |-> selectedFile, pc |-> "parsing",
                                  validated |-> <<>>, addCalls |-> 0, result |-> NoRet])
  /\ UNCHANGED <<store, issued, selectedFile, rowsState>>
  /\ UploadFrame

\* a handleParse that leaves the inline error as it was when the import fails
handleParseEndNoCatch(result, prevError) ==
  [rows |-> IF result.ok THEN result.value ELSE <<>>,
   errorMsg |-> prevError,
   loading |-> FALSE,
   selectedFile |-> Null]

\* the end of handleParse: setRows on success, the catch block on an error,
\* and the finally block with resetFileInput
handleParseEnd(result, prevError) ==
  [rows |-> IF result.ok THEN result.value ELSE <<>>,
   errorMsg |-> IF result.ok THEN prevError ELSE MessageOf(result.error),
   loading |-> FALSE,
   selectedFile |-> Null]

\* import i ends with result: its entry is closed and the component state set
EndImport(i, result) ==
  \E ui \in {handleParseEnd(result, errorMsg)} :
    /\ rowsState' = ui.rows
    /\ errorMsg' = ui.errorMsg
    /\ loading' = ui.loading
    /\ selectedFile' = ui.selectedFile
    /\ imports' = [imports EXCEPT ![i] = [file |-> @.file, pc |-> "done",
                                          validated |-> <<>>, addCalls |-> @.addCalls,
                                          result |-> result]]

\* parseCSV resolves and validateRows runs to its first await, or throws
ImportValidate(i) ==
  /\ imports[i].pc = "parsing"
  /\ \E v \in {ParseAndValidateOf(imports[i].file, issued)} :
       /\ issued' = v.issued
       /\ IF ~v.result.ok
            THEN EndImport(i, v.result)
            ELSE /\ imports' = [imports EXCEPT ![i].pc = "persisting",
                                               ![i].validated = v.result.value]
                 /\ UNCHANGED <<selectedFile, rowsState, errorMsg, loading>>
  /\ UNCHANGED store
  /\ UploadFrame

\* one await addTransaction(validatedRow) of import i, with the throw or the
\* return that follows it
ImportPersist(i) ==
  /\ imports[i].pc = "persisting"
  /\ \E a \in {addTransaction(store, imports[i].validated[imports[i].addCalls + 1])} :
       /\ store' = a.store
       /\ IF ~a.result.ok
            THEN EndImport(i, Thrown(StoreFailedError(a.result.error)))
          ELSE IF imports[i].addCalls + 1 = Len(imports[i].validated)
            THEN EndImport(i, Returned(imports[i].validated))
          ELSE /\ imports' = [imports EXCEPT ![i].addCalls = @ + 1]
               /\ UNCHANGED <<selectedFile, rowsState, errorMsg, loading>>
  /\ UNCHANGED issued
  /\ UploadFrame

ImportStep == \E i \in 1..Len(imports) : ImportValidate(i) \/ ImportPersist(i)

NextUpload == OnDrop \/ OnSelectFile \/ HandleParse \/ ImportStep

SpecUpload == InitUpload /\ [][NextUpload]_vars

\* the event loop runs every settled promise's continuation
SpecUploadLive == SpecUpload /\ WF_vars(ImportStep)

(***************************************************************************)
(* SpecTable: the TransactionsTable component over a store filled by       *)
(* earlier imports.  Every asynchronous handler the table starts is an     *)
(* entry of handlers, at the await it waits on, with the filterType and    *)
(* filterValue its loadTransactions closes over.  All records carry the    *)
(* same date, so the stable sort by transactionDate (the initial sort)     *)
(* keeps the order of the list; handleSort is not modelled.                *)
(***************************************************************************)
TableRecords == 51  \* records in the store when the table is mounted
MaxHandlers == 3    \* asynchronous handlers the table starts in one behaviour
MaxInFlight == 1    \* handlers that wait on an await at the same time

TableId(i) == <<"t", DigitChars[(i \div 10) + 1], DigitChars[(i % 10) + 1]>>

\* the position of an id of the table's store in IndexedDB's key order
KeyOrder(id) == DigitsValue(Tail(id))

A_First == <<"1">>
A_Second == <<"2">>
T_S == <<"S">>
T_C == <<"C">>

TableRecord(i) ==
  [id |-> TableId(i),
   accountType |-> IF i % 2 = 0 THEN T_S ELSE T_C,
   accountNumber |-> IF 2 * i <= TableRecords + 1 THEN A_First ELSE A_Second,
   transactionDate |-> D_Canonical,
   chequeNumber |-> EmptyStr,
   description1 |-> <<"g">>,
   description2 |-> EmptyStr,
   cadAmount |-> <<"5">>,
   usdAmount |-> EmptyStr]

TableStore == [id \in {TableId(i) : i \in 1..TableRecords} |-> TableRecord(KeyOrder(id))]

\* the last of the ids of two digits
MaxKey == Len(DigitChars) * Len(DigitChars) - 1

\* the records of a result, in key order
InKeyOrder(S) ==
  LET ids == {r.id : r \in S}
      Present(id) == id \in ids
      present == SelectSeq([i \in 1..MaxKey |-> TableId(i)], Present)
  IN  [k \in 1..Len(present) |-> CHOOSE r \in S : r.id = present[k]]

\* db.getAllFromIndex("transactions", "byAccountNumber", accountNumber)
getByAccountNumber(st, accountNumber) ==
  Returned({st[k] : k \in {j \in DOMAIN st : st[j].accountNumber = accountNumber}})

\* db.getAllFromIndex("transactions", "byTransactionDate", date)
getByTransactionDate(st, date) ==
  Returned({st[k] : k \in {j \in DOMAIN st : st[j].transactionDate = date}})

\* the query loadTransactions chooses under the filter it closes over
QueryOf(filterType, filterValue) ==
  IF filterType = "account" /\ Trim(filterValue) # EmptyStr
    THEN [index |-> "byAccountNumber", key |-> Trim(filterValue)]
  ELSE IF filterType = "date" /\ Trim(filterValue) # EmptyStr
    THEN [index |-> "byTransactionDate", key |-> Trim(filterValue)]
  ELSE [index |-> "none", key |-> EmptyStr]

\* what the query resolves with on the store st
LoadQuery(st, query) ==
  IF query.index = "byAccountNumber" THEN getByAccountNumber(st, query.key)
  ELSE IF query.index = "byTransactionDate" THEN getByTransactionDate(st, query.key)
  ELSE getAllTransactions(st)

\* String.prototype.toLowerCase, on the letters of the table's store
ToLowerCase(s) ==
  [i \in 1..Len(s) |-> IF s[i] = "S" THEN "s" ELSE IF s[i] = "C" THEN "c" ELSE s[i]]

\* String.prototype.includes
Includes(s, sub) ==
  \E i \in 0..(Len(s) - Len(sub)) : SubSeq(s, i + 1, i + Len(sub)) = sub

\* processedTransactions: the search applied to the list
processedTransactions(t) ==
  IF Trim(t.searchTerm) = EmptyStr THEN t.transactions
  ELSE LET term == ToLowerCase(t.searchTerm)
           Found(r) == \E f \in DOMAIN r : Includes(ToLowerCase(r[f]), term)
       IN  SelectSeq(t.transactions, Found)

\* Math.ceil(processedTransactions.length / itemsPerPage)
totalPages(t) == (Len(processedTransactions(t)) + t.itemsPerPage - 1) \div t.itemsPerPage

\* paginatedTransactions: slice(startIndex, startIndex + itemsPerPage)
paginatedTransactions(t) ==
  LET p == processedTransactions(t)
      startIndex == (t.currentPage - 1) * t.itemsPerPage
      endIndex == IF startIndex + t.itemsPerPage < Len(p)
                    THEN startIndex + t.itemsPerPage ELSE Len(p)
  IN  SubSeq(p, startIndex + 1, endIndex)

InitialItemsPerPage == 50
PageSizes == {25, 50, 100}
SearchTerms == {EmptyStr, <<"s">>}
FilterTypes == {"all", "account", "date"}
FilterValues == {EmptyStr, A_First}

\* a handler at an await; the query of the loadTransactions it calls is the
\* one for the filterType and filterValue of the render that created it
Handler(origin, pos, t, id) ==
  [origin |-> origin, pc |-> pos, query |-> QueryOf(t.filterType, t.filterValue), id |-> id]

InFlightHandlers == {i \in 1..Len(handlers) : handlers[i].pc # "done"}

\* another handler can be started
CanStart == Len(handlers) < MaxHandlers /\ Cardinality(InFlightHandlers) < MaxInFlight

\* setLoading(true); setError(null)
LoadStarted(t) == [t EXCEPT !.loading = TRUE, !.error = Null]

\* the table after its first render and its mount effect
InitTable ==
  /\ tz = 0
  /\ store = TableStore
  /\ issued = 0
  /\ pc = "idle"
  /\ parsedRows = <<>>
  /\ validated = <<>>
  /\ addCalls = 0
  /\ storeBefore = EmptyStore
  /\ outcome = NoOutcome
  /\ file = NoFile
  /\ pending = {}
  /\ UploadIdle
  /\ tabulated = {}
  /\ call = NoCall
  /\ ret = NoRet
  /\ \E t \in {[transactions |-> <<>>, loading |-> FALSE, error |-> Null,
                 totalCount |-> 0, searchTerm |-> EmptyStr, filterType |-> "all",
                 filterValue |-> EmptyStr, currentPage |-> 1,
                 itemsPerPage |-> InitialItemsPerPage]} :
       /\ table = LoadStarted(t)
       /\ handlers = <<Handler("mount", "query", t, EmptyStr)>>

TableFrame ==
  UNCHANGED <<tz, issued, pc, parsedRows, validated, addCalls, storeBefore, outcome,
              file, ret, pending, uploadVars>>

\* onChange of the search box
SetSearchTerm ==
  /\ \E v \in SearchTerms \ {table.searchTerm} : table' = [table EXCEPT !.searchTerm = v]
  /\ UNCHANGED <<store, call, handlers>>
  /\ TableFrame

\* onChange of the filter select
SetFilterType ==
  /\ \E v \in FilterTypes \ {table.filterType} : table' = [table EXCEPT !.filterType = v]
  /\ UNCHANGED <<store, call, handlers>>
  /\ TableFrame

\* onChange of the filter value input, rendered when filterType is not all
SetFilterValue ==
  /\ table.filterType # "all"
  /\ \E v \in FilterValues \ {table.filterValue} : table' = [table EXCEPT !.filterValue = v]
  /\ UNCHANGED <<store, call, handlers>>
  /\ TableFrame

\* the pagination bar is rendered: !loading and totalPages > 1
PaginationShown(t) == ~t.loading /\ totalPages(t) > 1

\* onChange of the page-size select
SetItemsPerPage ==
  /\ PaginationShown(table)
  /\ \E n \in PageSizes \ {table.itemsPerPage} :
       table' = [table EXCEPT !.itemsPerPage = n, !.currentPage = 1]
  /\ UNCHANGED <<store, call, handlers>>
  /\ TableFrame

\* the Previous button: setCurrentPage(Math.max(1, currentPage - 1))
PreviousPage ==
  /\ PaginationShown(table)
  /\ table.currentPage # 1
  /\ table' = [table EXCEPT !.currentPage = IF @ - 1 > 1 THEN @ - 1 ELSE 1]
  /\ UNCHANGED <<store, call, handlers>>
  /\ TableFrame

\* the Next button: setCurrentPage(Math.min(totalPages, currentPage + 1))
NextPage ==
  /\ PaginationShown(table)
  /\ table.currentPage # totalPages(table)
  /\ table' = [table EXCEPT !.currentPage =
                               IF @ + 1 < totalPages(table) THEN @ + 1 ELSE totalPages(table)]
  /\ UNCHANGED <<store, call, handlers>>
  /\ TableFrame

\* the Refresh button (disabled while loading): loadTransactions
Refresh ==
  /\ ~table.loading
  /\ CanStart
  /\ table' = LoadStarted(table)
  /\ handlers' = Append(handlers, Handler("refresh", "query", table, EmptyStr))
  /\ UNCHANGED <<store, call>>
  /\ TableFrame

\* the Apply button: applyFilter to its await
ApplyFilter ==
  /\ CanStart
  /\ table' = LoadStarted([table EXCEPT !.currentPage = 1])
  /\ handlers' = Append(handlers, Handler("applyFilter", "query", table, EmptyStr))
  /\ UNCHANGED <<store, call>>
  /\ TableFrame

\* the Clear button, rendered when a filter type or a search term is set:
\* clearFilter, whose loadTransactions() is the one of the current render
ClearFilter ==
  /\ table.filterType # "all" \/ table.searchTerm # EmptyStr
  /\ CanStart
  /\ table' = LoadStarted([table EXCEPT !.filterType = "all", !.filterValue = EmptyStr,
                                        !.searchTerm = EmptyStr, !.currentPage = 1])
  /\ handlers' = Append(handlers, Handler("clearFilter", "query", table, EmptyStr))
  /\ UNCHANGED <<store, call>>
  /\ TableFrame

\* a handler that goes on whatever the dialog returns
ConfirmIgnored(confirmed) == TRUE

\* if (!window.confirm(...)) return;
ConfirmGate(confirmed) == confirmed

\* the rows whose delete button is clicked: the last one of the page
DeleteTargets(t) ==
  LET page == paginatedTransactions(t)
  IN  IF page = <<>> THEN {} ELSE {page[Len(page)].id}

\* the delete button of a row (the rows are rendered when !loading):
\* handleDelete(id) to its first await
HandleDelete ==
  /\ ~table.loading
  /\ CanStart
  /\ \E id \in DeleteTargets(table) : \E confirmed \in BOOLEAN :
       /\ call' = [op |-> "handleDelete", arg |-> id, confirmed |-> confirmed]
       /\ IF ConfirmGate(confirmed)
            THEN handlers' = Append(handlers, Handler("handleDelete", "delete", table, id))
            ELSE UNCHANGED handlers
  /\ UNCHANGED <<store, table>>
  /\ TableFrame

\* the Clear All button: handleClearAll to its first await
HandleClearAll ==
  /\ CanStart
  /\ \E confirmed \in BOOLEAN :
       /\ call' = [op |-> "handleClearAll", arg |-> EmptyStr, confirmed |-> confirmed]
       /\ IF ConfirmGate(confirmed)
            THEN handlers' = Append(handlers, Handler("handleClearAll", "clear", table, EmptyStr))
            ELSE UNCHANGED handlers
  /\ UNCHANGED <<store, table>>
  /\ TableFrame

\* a handler that has returned
Finished == [origin |-> "none", pc |-> "done", query |-> QueryOf("all", EmptyStr),
             id |-> EmptyStr]

\* handler i at its await: the awaited call resolves and the handler runs to
\* its next await or to its end
HandlerStep(i) ==
  /\ handlers[i].pc # "done"
  /\ IF handlers[i].pc = "delete"
       THEN /\ store' = deleteTransaction(store, handlers[i].id).store
            /\ table' = LoadStarted(table)
            /\ handlers' = [handlers EXCEPT ![i].pc = "query"]
     ELSE IF handlers[i].pc = "clear"
       THEN /\ store' = clearTransactions(store).store
            /\ table' = LoadStarted(table)
            /\ handlers' = [handlers EXCEPT ![i].pc = "query"]
     ELSE IF handlers[i].pc = "query"
       THEN /\ table' = [table EXCEPT !.transactions =
                            InKeyOrder(LoadQuery(store, handlers[i].query).value)]
            /\ handlers' = [handlers EXCEPT ![i].pc = "count"]
            /\ UNCHANGED store
     ELSE /\ table' = [table EXCEPT !.totalCount = getTransactionCount(store).value,
                                    !.loading = FALSE]
          /\ handlers' = [handlers EXCEPT ![i] = Finished]
          /\ UNCHANGED store
  /\ UNCHANGED call
  /\ TableFrame

HandlerSteps == \E i \in 1..Len(handlers) : HandlerStep(i)

NextTable ==
  \/ SetSearchTerm
  \/ SetFilterType
  \/ SetFilterValue
  \/ SetItemsPerPage
  \/ PreviousPage
  \/ NextPage
  \/ Refresh
  \/ ApplyFilter
  \/ ClearFilter
  \/ HandleDelete
  \/ HandleClearAll
  \/ HandlerSteps

SpecTable == InitTable /\ [][NextTable]_vars

(***************************************************************************)
(* SpecChart: chartData of the cash-flow chart, applied to a list of       *)
(* stored transactions under a selected account type and year.  Amounts    *)
(* are in hundredths.                                                      *)
(***************************************************************************)
MaxChartRows == 2   \* transactions the chart is computed from

RECURSIVE DigitPrefix(_)
DigitPrefix(s) ==
  IF s # <<>> /\ Head(s) \in Digits THEN <<Head(s)>> \o DigitPrefix(Tail(s)) ELSE <<>>

\* parseFloat of a decimal literal with at most two fraction digits, in
\* hundredths: leading whitespace skipped, the longest numeric prefix read
parseFloat(s) ==
  LET t == TrimLeft(s)
      signed == t # <<>> /\ Head(t) \in {"+", "-"}
      neg == t # <<>> /\ Head(t) = "-"
      body == IF signed THEN Tail(t) ELSE t
      intPart == DigitPrefix(body)
      rest == SubSeq(body, Len(intPart) + 1, Len(body))
      fracPart == IF rest # <<>> /\ Head(rest) = "." THEN DigitPrefix(Tail(rest)) ELSE <<>>
      hundredths == DigitsValue(intPart) * 100
                      + DigitsValue(SubSeq(fracPart \o <<"0", "0">>, 1, 2))
  IN  IF intPart = <<>> /\ fracPart = <<>> THEN [nan |-> TRUE]
      ELSE [nan |-> FALSE, value |-> IF neg THEN 0 - hundredths ELSE hundredths]

\* parseAmount(cadAmount, usdAmount)
parseAmount(cadAmount, usdAmount) ==
  LET cad == IF cadAmount # EmptyStr /\ Trim(cadAmount) # EmptyStr
               THEN parseFloat(cadAmount) ELSE [nan |-> FALSE, value |-> 0]
      usd == IF usdAmount # EmptyStr /\ Trim(usdAmount) # EmptyStr
               THEN parseFloat(usdAmount) ELSE [nan |-> FALSE, value |-> 0]
  IN  (IF cad.nan THEN 0 ELSE cad.value) + (IF usd.nan THEN 0 ELSE usd.value)

\* new Date(dateString) of a date-only string: midnight UTC of that date
NewDateFromString(s) ==
  IF ~DateParseValid(s) THEN InvalidDate
  ELSE LET parts == Split(s, "-")
       IN  [valid |-> TRUE,
            day |-> DaysFromCivil(DigitsValue(parts[1]), DigitsValue(parts[2]),
                                  DigitsValue(parts[3])),
            hour |-> 0]

\* the local calendar date of a time value: what getFullYear and getMonth read
LocalCivil(date, tzHours) ==
  CivilFromDays(date.day + (date.hour + tzHours) \div HoursPerDay)

getFullYear(date, tzHours) == LocalCivil(date, tzHours).year
getMonth(date, tzHours) == LocalCivil(date, tzHours).month - 1

AllTypes == <<"a", "l", "l">>      \* "all"
MonthsPerYear == 12

\* the filter of chartData, by account type and year
ChartFilter(t, selectedAccountType, selectedYear, tzHours) ==
  IF selectedAccountType # AllTypes /\ t.accountType # selectedAccountType THEN FALSE
  ELSE LET date == NewDateFromString(t.transactionDate)
       IN  date.valid /\ getFullYear(date, tzHours) = selectedYear

\* monthlyTotals after the forEach over the filtered transactions
RECURSIVE MonthlyTotals(_, _, _, _)
MonthlyTotals(txs, selectedAccountType, selectedYear, tzHours) ==
  IF txs = <<>> THEN [m \in 1..MonthsPerYear |-> [in |-> 0, out |-> 0]]
  ELSE
    LET t == txs[Len(txs)]
        before == MonthlyTotals(SubSeq(txs, 1, Len(txs) - 1), selectedAccountType,
                                selectedYear, tzHours)
    IN  IF ~ChartFilter(t, selectedAccountType, selectedYear, tzHours) THEN before
        ELSE LET month == getMonth(NewDateFromString(t.transactionDate), tzHours) + 1
                 amount == parseAmount(t.cadAmount, t.usdAmount)
             IN  IF amount > 0
                   THEN [before EXCEPT ![month].in = @ + amount]
                 ELSE IF amount < 0
                   THEN [before EXCEPT ![month].out = @ + (0 - amount)]
                 ELSE before

\* chartData: one entry per month, moneyOut negative for display
chartData(txs, selectedAccountType, selectedYear, tzHours) ==
  LET totals == MonthlyTotals(txs, selectedAccountType, selectedYear, tzHours)
  IN  [m \in 1..MonthsPerYear |->
         [moneyIn |-> totals[m].in,
          moneyOut |-> 0 - totals[m].out,
          net |-> totals[m].in - totals[m].out]]

D_NewYear == <<"2", "0", "2", "4", "-", "0", "1", "-", "0", "1">>   \* "2024-01-01"
D_YearEnd == <<"2", "0", "2", "3", "-", "1", "2", "-", "3", "1">>   \* "2023-12-31"
T_Deposit == <<"1", "0", "0", ".", "5", "0">>   \* "100.50"
T_Refund == <<"5", "4", ".", "3", "2">>   \* "54.32"
T_Savings == <<"S", "a", "v", "i", "n", "g", "s">>

ChartAmounts ==
  {<<T_Amount, EmptyStr>>, <<T_Deposit, EmptyStr>>, <<T_Refund, T_Amount>>,
   <<EmptyStr, T_Deposit>>}

ChartRecords ==
  {[id |-> NanoId(1), accountType |-> t, accountNumber |-> T_Account,
    transactionDate |-> d, chequeNumber |-> EmptyStr, description1 |-> T_Grocery,
    description2 |-> EmptyStr, cadAmount |-> a[1], usdAmount |-> a[2]] :
     t \in {T_Chequing, T_Savings}, d \in {D_Canonical, D_NewYear, D_YearEnd},
     a \in ChartAmounts}

ChartYears == {2023, 2024}

InitChart ==
  /\ tz \in TZOffsets
  /\ PipelineIdle
  /\ call = NoCall
  /\ ret = NoRet

\* the records as getAllTransactions gives them: each under its own id
WithOwnIds(txs) == [i \in 1..Len(txs) |-> [txs[i] EXCEPT !.id = NanoId(i)]]

ChartData ==
  /\ call = NoCall
  /\ \E txs \in {WithOwnIds(s) : s \in SeqsUpTo(ChartRecords, MaxChartRows)} :
       \E acct \in {AllTypes, T_Chequing} : \E year \in ChartYears :
         /\ call' = [op |-> "chartData",
                     arg |-> [transactions |-> txs, selectedAccountType |-> acct,
                              selectedYear |-> year]]
         /\ ret' = Returned(chartData(txs, acct, year, tz))
  /\ UNCHANGED <<tz, pipelineVars, pending, uploadVars, tableVars>>

NextChart == ChartData

SpecChart == InitChart /\ [][NextChart]_vars

(***************************************************************************)
(* Properties.                                                             *)
(***************************************************************************)
HasId(v) == v # Undefined /\ v # EmptyStr

\* the row makes the first loop of validateRows throw
RowFails(row) == ~ValidateRow(row, NanoId(0), tz).ok

ImportStarted == pc \in {"persisting", "idle"} /\ file # NoFile
ImportRejected == pc = "idle" /\ outcome.status = "rejected"
NothingPersisted == store = storeBefore

\* C1: when a row of a batch of N >= 1 rows fails sanitization or validation,
\* validateRows makes no addTransaction call, the import is rejected and the
\* store holds what it held before, with the same record count.
C1_AllOrNothing ==
  (ImportStarted /\ \E i \in 1..Len(parsedRows) : RowFails(parsedRows[i]))
    => /\ ImportRejected
       /\ addCalls = 0
       /\ NothingPersisted
       /\ Cardinality(DOMAIN store) = Cardinality(DOMAIN storeBefore)

C1_Witness ==
  /\ ImportRejected
  /\ Len(parsedRows) = 2
  /\ HeadersAccepted(parsedRows[1])
  /\ ~RowFails(parsedRows[1])
  /\ RowFails(parsedRows[2])
  /\ addCalls = 0
  /\ store # EmptyStore
  /\ store = storeBefore

\* C2: when persisting a row of the batch fails, the store holds exactly the
\* records it held before the import: no earlier row of the batch remains.
C2_StoreFailureRollsBack ==
  (ImportRejected /\ outcome.error.message = "Failed to store transaction")
    => NothingPersisted

\* C3: addTransactions is atomic.  If the id of a row is already in the
\* store or occurs earlier in rows, the call throws and the store is as it
\* was before the call; otherwise every row is inserted, nothing else changes.
C3_BulkInsertAtomic ==
  [][call'.op = "addTransactions" =>
       LET rows == call'.arg
           conflict ==
             \/ \E i \in 1..Len(rows) : rows[i]["id"] \in DOMAIN store
             \/ \E i, j \in 1..Len(rows) : i < j /\ rows[i]["id"] = rows[j]["id"]
       IN  IF conflict
             THEN ~ret'.ok /\ store' = store
             ELSE /\ ret'.ok
                  /\ DOMAIN store' = DOMAIN store \cup {rows[i]["id"] : i \in 1..Len(rows)}
                  /\ \A k \in DOMAIN store : store'[k] = store[k]
                  /\ \A i \in 1..Len(rows) : store'[rows[i]["id"]].id = rows[i]["id"]]_vars

C3_Witness ==
  /\ call.op = "addTransactions"
  /\ ~ret.ok
  /\ Len(call.arg) = 2
  /\ call.arg[1]["id"] \notin DOMAIN store
  /\ call.arg[2]["id"] = call.arg[1]["id"]
  /\ store # EmptyStore

\* C4: for every decoded header list that is not exactly the 8 required
\* names in order, the import is rejected with the header error (or, for a
\* file without data rows, the no-data error) and persists nothing.
C4_HeaderGate ==
  (ImportStarted /\ DecodedHeaders(file) # REQUIRED_HEADERS)
    => /\ ImportRejected
       /\ outcome.error \in {HeaderError, NoDataError}
       /\ NothingPersisted

\* three numeric slash-separated components
MDYParts(s) ==
  LET p == Split(s, "/")
  IN  IF Len(p) = 3 /\ \A i \in 1..3 : p[i] # <<>> /\ AllDigits(p[i])
        THEN [ok |-> TRUE, month |-> DigitsValue(p[1]), day |-> DigitsValue(p[2]),
              year |-> DigitsValue(p[3]), yearDigits |-> Len(p[3])]
        ELSE [ok |-> FALSE]

IsCalendarDate(d) ==
  d.month \in 1..12 /\ d.day \in 1..DaysInMonth(d.year, d.month)

\* C5: a row whose Transaction Date has three numeric components that are
\* no calendar date makes the import fail: the batch is rejected and the
\* store is unchanged.
C5_InvalidCalendarDateRejected ==
  (ImportStarted /\ \E i \in 1..Len(parsedRows) :
      LET d == MDYParts(OrEmpty(Get(parsedRows[i], "Transaction Date")))
      IN  d.ok /\ ~IsCalendarDate(d))
    => ImportRejected /\ NothingPersisted

\* C6: for every local timezone offset, sanitizeRow turns a valid
\* month/day/4-digit-year date into the YYYY-MM-DD string of that same
\* year, month and day.
C6_DateKeepsItsDay ==
  (call.op = "sanitizeRow" /\ call.nth = 1)
    => LET d == MDYParts(call.arg["Transaction Date"])
       IN  (d.ok /\ d.yearDigits = 4 /\ IsCalendarDate(d))
             => /\ ret.ok
                /\ ret.value["Transaction Date"] =
                     PadDigits(d.year, 4) \o <<"-">> \o PadDigits(d.month, 2)
                       \o <<"-">> \o PadDigits(d.day, 2)

\* the columns that must not be empty and are empty, after trimming, in row
EmptyRequired(row) ==
  {col \in RequiredSet :
     ~COLUMN_RULES[col].allowEmpty /\ Trim(OrEmpty(Get(row, col))) = EmptyStr}

\* C7: a row with an empty value in a column with allowEmpty = false makes
\* the import fail with nothing persisted; when it is the only row, the error
\* is the validation error naming such a column.
C7_EmptyRequiredRejected ==
  (/\ ImportStarted
   /\ Len(parsedRows) >= 1
   /\ HeadersAccepted(parsedRows[1])
   /\ \E i \in 1..Len(parsedRows) : EmptyRequired(parsedRows[i]) # {})
    => /\ ImportRejected
       /\ NothingPersisted
       /\ Len(parsedRows) = 1 =>
            /\ outcome.error.message = "Invalid type for column"
            /\ outcome.error.column \in EmptyRequired(parsedRows[1])

\* C8: sanitizeRow is idempotent: applied to a row it returned, it returns
\* that same row.
C8_SanitizeIdempotent ==
  (call.op = "sanitizeRow" /\ call.nth = 2) => (ret.ok /\ ret.value = call.arg)

\* C9: getTransaction(r.id) right after a successful addTransaction(r)
\* returns the record whose nine fields are r's fields under the field-name
\* mapping.
C9_RoundTrip ==
  [][(/\ call.op = "addTransaction" /\ ret.ok
      /\ call'.op = "getTransaction" /\ call'.arg = call.arg["id"])
       => /\ ret'.ok
          /\ ret'.value =
               [id |-> call.arg["id"],
                accountType |-> call.arg["Account Type"],
                accountNumber |-> call.arg["Account Number"],
                transactionDate |-> call.arg["Transaction Date"],
                chequeNumber |-> call.arg["Cheque Number"],
                description1 |-> call.arg["Description 1"],
                description2 |-> call.arg["Description 2"],
                cadAmount |-> call.arg["CAD$"],
                usdAmount |-> call.arg["USD$"]]]_vars

C9_Witness ==
  /\ call.op = "getTransaction"
  /\ ret.ok
  /\ ret.value.id = call.arg
  /\ ret.value.usdAmount # EmptyStr
  /\ ret.value.cadAmount # ret.value.usdAmount

\* C10: every row validateRows keeps has a non-empty id; a row that entered
\* with a non-empty id keeps it, in the returned and in the persisted row; a
\* generated id goes only to a row that had none.
C10_IdAssignedOnce ==
  validated # <<>> =>
    /\ Len(validated) = Len(parsedRows)
    /\ \A i \in 1..Len(validated) :
         LET pid == Get(parsedRows[i], "id")
             vid == validated[i]["id"]
         IN  /\ HasId(vid)
             /\ HasId(pid) => vid = pid
             /\ ~HasId(pid) => vid \in {NanoId(k) : k \in 1..issued}
             /\ (i <= addCalls /\ ~(ImportRejected /\ i = addCalls))
                  => vid \in DOMAIN store /\ store[vid].id = vid
    /\ outcome.status = "resolved" => outcome.rows = validated

C10_Witness ==
  /\ pc = "idle"
  /\ outcome.status = "resolved"
  /\ Len(outcome.rows) = 2
  /\ HasId(Get(parsedRows[1], "id"))
  /\ outcome.rows[1]["id"] = Get(parsedRows[1], "id")
  /\ ~HasId(Get(parsedRows[2], "id"))
  /\ \A i \in 1..2 : outcome.rows[i]["id"] \in DOMAIN store

\* C11: the rows parseCSV resolves with carry ids that are non-empty,
\* pairwise distinct within the batch and distinct from every id in the
\* store, whatever columns and cells the file has (a column "id" included).
C11_ParsedIdsUnique ==
  pc = "parsed" =>
    /\ \A i \in 1..Len(parsedRows) :
         /\ HasId(Get(parsedRows[i], "id"))
         /\ Get(parsedRows[i], "id") \notin DOMAIN store
    /\ \A i, j \in 1..Len(parsedRows) :
         i # j => Get(parsedRows[i], "id") # Get(parsedRows[j], "id")

\* C12: addTransaction(row) with an id that is already in the store throws
\* and leaves the store unchanged: the record under that id keeps its
\* field values and the record count is the same.
C12_DuplicateAddRejected ==
  [][(call'.op = "addTransaction" /\ call'.arg["id"] \in DOMAIN store)
       => /\ ~ret'.ok
          /\ store' = store
          /\ store'[call'.arg["id"]] = store[call'.arg["id"]]
          /\ Cardinality(DOMAIN store') = Cardinality(DOMAIN store)]_vars

C12_Witness ==
  /\ call.op = "addTransaction"
  /\ ~ret.ok
  /\ call.arg["id"] \in DOMAIN store
  /\ store[call.arg["id"]] # convertToDBFormat(call.arg)
  /\ Cardinality(DOMAIN store) = 2

\* C13: updateTransaction(row) either throws the not-found error and leaves
\* the store unchanged, or replaces the record that is stored under row.id
\* at the moment of its write; it never inserts a record under an id that
\* is absent then, whatever deleteTransaction or clearTransactions call
\* comes between its existence check and its write.
C13_UpdateNeverInserts ==
  [][/\ \A row \in pending \ pending' :
          /\ row["id"] \in DOMAIN store
          /\ DOMAIN store' = DOMAIN store
          /\ store' = [store EXCEPT ![row["id"]] = convertToDBFormat(row)]
     /\ (call'.op = "updateTransaction" /\ ~ret'.ok) => store' = store]_vars

\* C14: deleteTransaction(id) for an id that is not in the store throws a
\* not-found error and leaves the records and the record count unchanged.
C14_DeleteMissingRaises ==
  [][(call'.op = "deleteTransaction" /\ call'.arg \notin DOMAIN store)
       => /\ ~ret'.ok
          /\ store' = store
          /\ Cardinality(DOMAIN store') = Cardinality(DOMAIN store)]_vars

\* C15: a getAllTransactions or getTransactionCount read that completes
\* while an import of N >= 2 rows is persisting sees none of the rows of the
\* batch or all N of them, never a strict non-empty part of the batch.
C15_ReadsSeeWholeBatches ==
  [][(/\ pc = "persisting"
      /\ Len(validated) >= 2
      /\ \A i \in 1..Len(validated) : validated[i]["id"] \notin DOMAIN storeBefore
      /\ <<call, ret>>' # <<call, ret>>)
       => LET batch == {convertToDBFormat(validated[i]) : i \in 1..Len(validated)}
              before == Cardinality(DOMAIN storeBefore)
          IN  IF call'.op = "getAllTransactions"
                THEN ret'.value \cap batch \in {{}, batch}
                ELSE ret'.value \in {before, before + Len(validated)}]_vars

\* an amount that is empty or parses to a finite decimal number, once trimmed
AmountOk(v) ==
  LET t == Trim(OrEmpty(v))
  IN  t = EmptyStr \/ IsFinite(ToNumber(t))

BadAmounts(row) == {col \in {"CAD$", "USD$"} : ~AmountOk(Get(row, col))}

\* C17: a row is accepted only if its trimmed CAD$ and USD$ are empty or
\* parse to a finite decimal number; any other amount makes the import fail
\* with nothing persisted (for a one-row file, with the validation error
\* naming such a column), so every persisted amount is empty or finite.
C17_AmountsFinite ==
  /\ (/\ ImportStarted
      /\ Len(parsedRows) >= 1
      /\ HeadersAccepted(parsedRows[1])
      /\ \E i \in 1..Len(parsedRows) : BadAmounts(parsedRows[i]) # {})
       => /\ ImportRejected
          /\ NothingPersisted
          /\ Len(parsedRows) = 1 =>
               /\ outcome.error.message = "Invalid type for column"
               /\ outcome.error.column \in BadAmounts(parsedRows[1])
  /\ \A k \in DOMAIN store : AmountOk(store[k].cadAmount) /\ AmountOk(store[k].usdAmount)

\* the rule of a column is violated by the (trimmed) value of a row
RuleViolated(col, v) ==
  LET t == Trim(OrEmpty(v))
  IN  IF t = EmptyStr THEN ~COLUMN_RULES[col].allowEmpty
      ELSE IF COLUMN_RULES[col].type = "number" THEN ~IsFinite(ToNumber(t))
      ELSE IF COLUMN_RULES[col].type = "date"
        THEN ~(MDYParts(t).ok /\ IsCalendarDate(MDYParts(t)))
      ELSE FALSE

\* positions, in schema order, of the violated columns of a row
ViolatedColumns(row) ==
  {c \in 1..Len(REQUIRED_HEADERS) :
     RuleViolated(REQUIRED_HEADERS[c], Get(row, REQUIRED_HEADERS[c]))}

InvalidRows == {i \in 1..Len(parsedRows) : ViolatedColumns(parsedRows[i]) # {}}

\* C18: when validateRows rejects a batch for one of its rows, the single
\* error it raises names the first violated column, in schema order, of the
\* first invalid row, in file order, with that column's offending value.
C18_FirstFailureReported ==
  (/\ ImportRejected
   /\ addCalls = 0
   /\ outcome.error \notin {NoDataError, HeaderError})
    => /\ InvalidRows # {}
       /\ LET row == parsedRows[MinOf(InvalidRows)]
              col == REQUIRED_HEADERS[MinOf(ViolatedColumns(row))]
          IN  outcome.error = InvalidTypeError(col, Trim(OrEmpty(Get(row, col))))

\* a component of a date that is a number: not blank, and parsed to a finite number
NumericComponent(p) == Trim(p) # EmptyStr /\ IsFinite(ToNumber(p))

\* the date has three numeric slash-separated components (month, day, year)
Decomposable(s) ==
  LET p == Split(s, "/")
  IN  Len(p) >= 3 /\ \A i \in 1..3 : NumericComponent(p[i])

\* C20: sanitizeRow throws for every row whose Transaction Date cannot be
\* decomposed into three numeric slash-separated components, and returns no
\* sanitized row for it.
C20_UndecomposableDateThrows ==
  (call.op = "sanitizeRow" /\ ~Decomposable(call.arg["Transaction Date"])) => ~ret.ok

InFlight == {i \in 1..Len(imports) : imports[i].pc # "done"}

\* C16: at most one import started by handleParse is in flight at any time,
\* whatever files are dropped or selected and whenever the button is clicked.
C16_OneImportInFlight == Cardinality(InFlight) <= 1

C16_Witness ==
  /\ Len(imports) = 2
  /\ imports[1].pc = "done"
  /\ imports[2].pc = "persisting"
  /\ imports[2].addCalls = 1
  /\ loading
  /\ selectedFile # Null
  /\ selectedFile # imports[2].file

\* C19: every import handleParse starts ends; at its end loading is false
\* and the selected file is cleared, and when it ends by an error errorMsg
\* is that error's message and the echoed rows are empty; every import
\* starts with errorMsg cleared.
C19_AttemptEndsAndResets ==
  /\ \A i \in 1..MaxAttempts :
       (Len(imports) >= i) ~> (Len(imports) >= i /\ imports[i].pc = "done")
  /\ [][\A i \in 1..Len(imports) :
          (imports[i].pc # "done" /\ imports'[i].pc = "done")
            => /\ ~loading'
               /\ selectedFile' = Null
               /\ ~imports'[i].result.ok
                    => /\ errorMsg' = MessageOf(imports'[i].result.error)
                       /\ rowsState' = <<>>]_vars
  /\ [][Len(imports') > Len(imports) => (errorMsg' = Null /\ loading')]_vars

C19_Witness ==
  /\ Len(imports) = 2
  /\ imports[1].pc = "done" /\ imports[1].result.ok
  /\ imports[2].pc = "done" /\ ~imports[2].result.ok
  /\ errorMsg = MessageOf(imports[2].result.error)
  /\ rowsState = <<>>
  /\ ~loading
  /\ selectedFile = Null

\* a data record of the file has fewer or more fields than its header
Malformed(f) ==
  \E i \in 1..Len(f.records) :
    ~IsEmptyLine(f.records[i]) /\ Len(f.records[i]) # Len(f.headers)

\* C21: an import of a file with a data row of fewer or more fields than the
\* header fails: none of its rows is validated or persisted and it does not
\* resolve.
C21_MalformedFileRejected ==
  (file # NoFile /\ Malformed(file))
    => /\ pc # "persisting"
       /\ outcome.status # "resolved"
       /\ NothingPersisted

\* the file has a column named id
HasIdColumn(f) == \E i \in 1..Len(f.headers) : normalizeHeader(f.headers[i]) = "id"

\* C22: while the header of the file in flight has not yet been compared
\* against the required schema, no row of it has been given an id (the rows
\* of a file without an id column carry none).
C22_HeaderCheckedFirst ==
  (pc = "parsed" /\ ~HasIdColumn(file))
    => \A i \in 1..Len(parsedRows) : Get(parsedRows[i], "id") = Undefined

NoOuterWhiteSpace(s) ==
  s = <<>> \/ (Head(s) \notin WhiteSpace /\ s[Len(s)] \notin WhiteSpace)

\* t is s without its leading and trailing whitespace, nothing else altered
IsTrimOf(t, s) ==
  /\ NoOuterWhiteSpace(t)
  /\ \E a \in 0..Len(s) : \E b \in a..Len(s) :
       /\ t = SubSeq(s, a + 1, b)
       /\ \A i \in (1..a) \cup ((b + 1)..Len(s)) : s[i] \in WhiteSpace

\* C24: when sanitizeRow succeeds, none of the eight non-id fields of its
\* result has leading or trailing whitespace, the seven non-date fields are
\* the trimmed input values, the id is the input's id, and the result has
\* the fields of the input.
C24_SanitizeTrimsOnly ==
  (call.op = "sanitizeRow" /\ ret.ok)
    => /\ DOMAIN ret.value = DOMAIN call.arg
       /\ \A k \in RequiredSet : NoOuterWhiteSpace(ret.value[k])
       /\ \A k \in RequiredSet \ {"Transaction Date"} : IsTrimOf(ret.value[k], call.arg[k])
       /\ ret.value["id"] = call.arg["id"]

C24_Witness ==
  /\ call.op = "sanitizeRow" /\ call.nth = 1
  /\ ret.ok
  /\ call.arg["Account Type"] = T_ChequingPadded /\ ret.value["Account Type"] = T_Chequing
  /\ call.arg["CAD$"] = T_AmountPadded /\ ret.value["CAD$"] = T_Amount
  /\ call.arg["Description 2"] = T_Blank /\ ret.value["Description 2"] = EmptyStr
  /\ call.arg["Transaction Date"] = D_Padded

\* C25: when the first two imports are of the same file and the first one
\* succeeds with its N rows, the second one succeeds too, and when both have
\* ended the store, empty before them, holds 2N records.
C25_SameFileTwice ==
  (/\ Len(imports) = 2
   /\ imports[1].pc = "done" /\ imports[2].pc = "done"
   /\ imports[1].file = imports[2].file
   /\ imports[1].result.ok)
    => /\ imports[2].result.ok
       /\ Cardinality(DOMAIN store) = 2 * Len(imports[1].result.value)

\* the year and the month written in a canonical YYYY-MM-DD date
WrittenYear(s) == DigitsValue(SubSeq(s, 1, 4))
WrittenMonth(s) == DigitsValue(SubSeq(s, 6, 7))

\* the combined amount of a stored transaction, in hundredths
CombinedAmount(t) == parseAmount(t.cadAmount, t.usdAmount)

RECURSIVE SeqSum(_)
SeqSum(ns) == IF ns = <<>> THEN 0 ELSE Head(ns) + SeqSum(Tail(ns))

\* the sum of Amount over the transactions that count
SumOver(txs, Counts(_), Amount(_)) ==
  SeqSum([i \in 1..Len(txs) |-> IF Counts(txs[i]) THEN Amount(txs[i]) ELSE 0])

\* C28: for every timezone offset, with all account types selected, the
\* chart of a year gives each month as money-in the sum of the positive
\* combined amounts, and as money-out the sum of the absolute values of the
\* negative ones, of the transactions dated in that year and month.
C28_CountedInWrittenMonth ==
  (call.op = "chartData" /\ call.arg.selectedAccountType = AllTypes)
    => \A m \in 1..MonthsPerYear :
         LET InMonth(t) == /\ WrittenYear(t.transactionDate) = call.arg.selectedYear
                           /\ WrittenMonth(t.transactionDate) = m
             In(t) == InMonth(t) /\ CombinedAmount(t) > 0
             Out(t) == InMonth(t) /\ CombinedAmount(t) < 0
             Abs(t) == 0 - CombinedAmount(t)
         IN  /\ ret.value[m].moneyIn = SumOver(call.arg.transactions, In, CombinedAmount)
             /\ ret.value[m].moneyOut = 0 - SumOver(call.arg.transactions, Out, Abs)

\* the last call is the answer to a dialog of the table
DialogAnswer(c) == c.op \in {"handleDelete", "handleClearAll"}

\* C23: a declined dialog changes neither the store nor the table and starts
\* no handler; a handler that is about to call deleteTransaction(id) or
\* clearTransactions was started by the confirmed dialog for that row, or for
\* clear-all; and the store loses records only by such a handler.
C23_RemovalOnlyAfterConfirm ==
  [][/\ (call' # call /\ DialogAnswer(call') /\ ~call'.confirmed)
          => UNCHANGED <<store, table, handlers>>
     /\ \A i \in 1..Len(handlers') :
          (handlers'[i].pc \in {"delete", "clear"} /\ i > Len(handlers))
            => /\ DialogAnswer(call')
               /\ call'.confirmed
               /\ call'.op = handlers'[i].origin
               /\ call'.arg = handlers'[i].id
               /\ handlers'[i].pc = (IF call'.op = "handleDelete" THEN "delete" ELSE "clear")
     /\ store' # store
          => \E i \in 1..Len(handlers) :
               \/ handlers[i].pc = "delete" /\ store' = StoreDelete(store, handlers[i].id)
               \/ handlers[i].pc = "clear" /\ store' = EmptyStore]_vars

C23_Witness ==
  /\ table # Null
  /\ call.op = "handleDelete" /\ ~call.confirmed
  /\ Cardinality(DOMAIN store) = TableRecords - 1
  /\ call.arg \in DOMAIN store
  /\ InFlightHandlers = {}
  /\ Len(table.transactions) = TableRecords - 1

\* C26: when the reload started by clearFilter resolves its query while the
\* table lists fewer records than the store holds, the table's list becomes
\* the full contents of the store.
C26_ClearReloadsEverything ==
  [][\A i \in 1..Len(handlers) :
       (/\ handlers[i].origin = "clearFilter"
        /\ handlers[i].pc = "query" /\ handlers'[i].pc = "count"
        /\ Len(table.transactions) < Cardinality(DOMAIN store))
         => table'.transactions = InKeyOrder(getAllTransactions(store).value)]_vars

\* C27: in the table, currentPage stays within 1..max(1, totalPages).
C27_CurrentPageInRange ==
  table # Null
    => /\ table.currentPage >= 1
       /\ table.currentPage <= (IF totalPages(table) > 1 THEN totalPages(table) ELSE 1)

=============================================================================
